---- MODULE Spec2Model ----
(***************************************************************************)
(* A model of the two-pass SIC/XE assembler of assembler.py: Pass 1        *)
(* (pass1), the block layout it ends with, Pass 2 (pass2) and the object   *)
(* program records Pass 2 returns.  One action is one iteration of a loop  *)
(* of the source, or the code before or after a loop.                      *)
(*                                                                         *)
(* Strings are modelled by what the code asks of them.  An operand is a    *)
(* record whose field k says which of the code's string tests it passes    *)
(* (startswith('='), startswith('#'), isdigit(), "'-' in operand", ...).   *)
(* A block or section name is the sequence of the pieces between its      *)
(* underscores, so that "'_' in block", block.split('_')[0] and           *)
(* b.startswith(csect + '_') are computed, not assumed.                   *)
(*                                                                         *)
(* parse_line and expand_macros work on raw text.  They are modelled on    *)
(* lines that are sequences of characters, under a specification of their  *)
(* own, MacroSpec, whose sources hold one macro definition and the lines   *)
(* that follow it; Spec starts from the parsed statements.                 *)
(***************************************************************************)
EXTENDS Integers, Sequences, FiniteSets, TLC

VARIABLES
  suite,          \* which family of source statements the program is drawn from
  optab_base,     \* whether the opcode table read from optab.csv lists BASE
  files,          \* the output files assemble_file has written
  pc,             \* position in assemble_file: start, pass1, laid, pass2, done
                  \* (pass2 has returned), written, complete, failed;
                  \* expand, expanded while expand_macros is looked at alone
  err,            \* the exception that ended the run ("" while none)
  lineno,         \* pass1: enumerate(lines, start=2)
  locctr, current_block, current_csect,
  blocktab,       \* insertion-ordered dict: sequence of [name, locctr, address, size]
  symtab, symtab_block,
  littab,         \* insertion-ordered dict: sequence of [lit, address, block]
  intermediate,   \* sequence of [lineno, loc, line, block]
  extdef, extref,
  start_address, program_length,
  idx,            \* pass2: position in intermediate
  BASE_ADDR,
  fixed_symtab,   \* pass2's symtab after the block fold
  object_codes,   \* sequence of [tloc, obj, block]
  current_text,   \* sequence of obj
  current_start,  \* NoAddr models None
  text_records,   \* sequence of [start, nbytes, body]
  mod_records,    \* sequence of [addr, length, sym]
  emitted_literals,
  records,        \* the object program pass2 returns
  label_lines,    \* history: for each scoped key, the line numbers of the lines
                  \* the walk read that carry that label in that section
  lines,          \* expand_macros: the raw source lines, each a sequence of characters
  line_i,         \* expand_macros: i, counted from 1
  macros,         \* expand_macros: dict name -> [params, body]
  expanded,       \* expand_macros: the output lines
  given           \* history: what each raw line was written as (definition,
                  \* invocation, plain line)

vars == << suite, optab_base, files, lines, line_i, macros, expanded, given, pc, err, lineno, locctr, current_block, current_csect, blocktab,
           symtab, symtab_block, littab, intermediate, extdef, extref,
           start_address, program_length, idx, BASE_ADDR, fixed_symtab,
           object_codes, current_text, current_start, text_records, mod_records,
           emitted_literals, records, label_lines >>

prevars == << lines, line_i, macros, expanded, given >>

p1vars == << lineno, locctr, current_block, current_csect, blocktab, symtab,
             symtab_block, littab, intermediate, extdef, extref, start_address,
             program_length >>

p2vars == << idx, BASE_ADDR, fixed_symtab, object_codes, current_text,
             current_start, text_records, mod_records, emitted_literals, records >>

-----------------------------------------------------------------------------
(* Bounds of the model *)

\* source statements after the optional START line
MaxLines == 4

-----------------------------------------------------------------------------
(* Values *)

\* Python's None where an address is expected
NoAddr == -1

\* "large" reservation threshold of the literal auto-placement
LargeReservation == 100

\* displacement and address field ranges
PcMin == -2048
PcMax == 2047
BaseMax == 4095
Mod12 == 4096
Mod20 == 1048576
Mod24 == 16777216

\* the text-record split threshold, in hex characters
MaxTextHex == 60

Pow2(k) == 2 ^ k

Max(a, b) == IF a > b THEN a ELSE b

\* a name as the pieces between its underscores
Segs(str) ==
  IF str = "MY_SEC" THEN << "MY", "SEC" >> ELSE << str >>

DEFAULT == << "DEFAULT" >>

\* f"{current_csect}.{label}" and the bare label: two keys that never collide,
\* since neither a label nor a section name contains '.'
Scoped(csect, label) == << csect, label >>
Bare(label) == << << >>, label >>

-----------------------------------------------------------------------------
(* Operands and parsed lines *)

Opd(k, s, s2, n, x, sg) == [k |-> k, s |-> s, s2 |-> s2, n |-> n, x |-> x, sg |-> sg]

NoOperand == Opd("none", "", "", 0, FALSE, 1)
Sym(s) == Opd("sym", s, "", 0, FALSE, 1)
SymX(s) == Opd("sym", s, "", 0, TRUE, 1)
ImmNum(n) == Opd("immnum", "", "", n, FALSE, 1)
ImmSym(s) == Opd("immsym", s, "", 0, FALSE, 1)
Ind(s) == Opd("ind", s, "", 0, FALSE, 1)
\* =C'...' (form "C"), =X'...' (form "X") or =123 (form "D"); n characters
\* between the quotes (the value for form "D"); text tells literals apart
Lit(form, n, text) == Opd("lit", form, text, n, FALSE, 1)
\* C'...' or X'...' of a BYTE line; form "D" is any other text
Const(form, n, text) == Opd("const", form, text, n, FALSE, 1)
Num(n) == Opd("num", "", "", n, FALSE, 1)
\* A+B (sg = 1) or A-B (sg = -1)
Expr(a, sg, b) == Opd("expr", a, b, 0, FALSE, sg)
Regs(r1, r2) == Opd("regs", r1, r2, 0, FALSE, 1)
\* * (n = 0), *+k, *-k
Star(k) == Opd("star", "", "", k, FALSE, 1)
\* a comma-separated list of one or two names (EXTDEF, EXTREF)
Names(a, b) == Opd("names", a, b, 0, FALSE, 1)

Line(label, opcode, plus, operand) ==
  [label |-> label, opcode |-> opcode, plus |-> plus, operand |-> operand]

\* operand[1:] of a literal operand: the text of a BYTE constant
LitValue(o) == Const(o.s, o.n, o.s2)

IsLiteral(o) == o.k = "lit"

-----------------------------------------------------------------------------
(* The opcode table (optab.csv): mnemonic -> numeric opcode and format tag *)

OPTAB ==
  [ LDA   |-> [opcode |-> 0,   format |-> "3/4"],
    STL   |-> [opcode |-> 20,  format |-> "3/4"],
    JSUB  |-> [opcode |-> 72,  format |-> "3/4"],
    RSUB  |-> [opcode |-> 76,  format |-> "3/4"],
    LDT   |-> [opcode |-> 116, format |-> "3/4"],
    CLEAR |-> [opcode |-> 180, format |-> "2"],
    COMPR |-> [opcode |-> 160, format |-> "2"] ]

\* opcode in OPTAB; the table is read from a file at start-up, and whether
\* that file lists the directive BASE is an input of the run
InOptab(opcode) == opcode \in DOMAIN OPTAB \/ (opcode = "BASE" /\ optab_base)

\* "2" in format and not "3" in format (a listed BASE is not tagged format 2)
Format2Only(opcode) == opcode \in DOMAIN OPTAB /\ OPTAB[opcode].format = "2"

-----------------------------------------------------------------------------
(* blocktab: a dict in insertion order *)

NewBlock(name) == [name |-> name, locctr |-> 0, address |-> 0, size |-> 0]

HasBlock(bt, name) == \E i \in 1..Len(bt) : bt[i].name = name

Block(bt, name) == bt[CHOOSE i \in 1..Len(bt) : bt[i].name = name]

\* if name not in blocktab: blocktab[name] = {...}
WithBlock(bt, name) == IF HasBlock(bt, name) THEN bt ELSE Append(bt, NewBlock(name))

\* blocktab[name]["locctr"] = v
SaveLocctr(bt, name, v) ==
  [i \in 1..Len(bt) |-> IF bt[i].name = name THEN [bt[i] EXCEPT !.locctr = v] ELSE bt[i]]

-----------------------------------------------------------------------------
(* symtab: a dict *)

EmptyDict == [k \in {} |-> 0]

Put(d, key, v) == [k \in DOMAIN d \cup {key} |-> IF k = key THEN v ELSE d[k]]

-----------------------------------------------------------------------------
(* littab: a dict in insertion order, keyed by the literal operand *)

HasLiteral(lt, o) == \E i \in 1..Len(lt) : lt[i].lit = o

Literal(lt, o) == lt[CHOOSE i \in 1..Len(lt) : lt[i].lit = o]

\* if operand and operand.startswith('='): register it with address None
RegisterLiteral(lt, o, block) ==
  IF IsLiteral(o) /\ ~HasLiteral(lt, o)
  THEN Append(lt, [lit |-> o, address |-> NoAddr, block |-> block])
  ELSE lt

\* the bytes the large-reservation flush advances locctr by for one literal
FlushSize(o) ==
  IF o.s = "C" THEN o.n
  ELSE IF o.s = "X" THEN o.n \div 2
  ELSE 3

\* the bytes LTORG/END advance locctr by for one literal
PoolSize(o) ==
  IF o.s = "C" THEN o.n
  ELSE IF o.s = "X" THEN o.n \div 2
  ELSE 3

\* the loop of RESW/RESB over littab: every literal without an address gets
\* locctr and the current block; no intermediate record is written
RECURSIVE FlushBeforeReservation(_, _, _, _)
FlushBeforeReservation(lt, i, loc, block) ==
  IF i > Len(lt) THEN [littab |-> lt, locctr |-> loc]
  ELSE IF lt[i].address = NoAddr
       THEN FlushBeforeReservation(
              [lt EXCEPT ![i] = [@ EXCEPT !.address = loc, !.block = block]],
              i + 1, loc + FlushSize(lt[i].lit), block)
       ELSE FlushBeforeReservation(lt, i + 1, loc, block)

\* the loop of LTORG/END over littab: address, block, and a synthetic
\* '*' BYTE intermediate record per literal placed
RECURSIVE PlaceLiterals(_, _, _, _, _, _)
PlaceLiterals(lt, i, loc, block, ln, recs) ==
  IF i > Len(lt) THEN [littab |-> lt, locctr |-> loc, recs |-> recs]
  ELSE IF lt[i].address = NoAddr
       THEN PlaceLiterals(
              [lt EXCEPT ![i] = [@ EXCEPT !.address = loc, !.block = block]],
              i + 1, loc + PoolSize(lt[i].lit), block, ln,
              Append(recs, [lineno |-> (ln - 1) * 5, loc |-> loc,
                            line |-> Line("*", "BYTE", FALSE, LitValue(lt[i].lit)),
                            block |-> block]))
       ELSE PlaceLiterals(lt, i + 1, loc, block, ln, recs)

-----------------------------------------------------------------------------
(* Pass 1: one source line *)

\* str(label) inside an f-string: None prints as "None"
LabelText(label) == IF label = "" THEN "None" ELSE label

\* the label binding of pass1: scoped and bare key, both to locctr
BindLabel(st, csect, label, v) ==
  IF label = "" THEN st
  ELSE Put(Put(st, Scoped(csect, label), v), Bare(label), v)

\* the duplicate test made on the bare key, which every section shares
IsDuplicateBare(st, csect, label) ==
  label # "" /\ Bare(label) \in DOMAIN st

\* scoped_label in symtab: the duplicate test
IsDuplicate(st, csect, label) ==
  label # "" /\ Scoped(csect, label) \in DOMAIN st

\* the EQU branch of pass1: what it stores over the label's binding
EquSymtab(st, csect, label, o) ==
  IF o.k = "expr" /\ o.sg = -1
  THEN IF Bare(o.s) \in DOMAIN st /\ Bare(o.s2) \in DOMAIN st
       THEN Put(Put(st, Scoped(csect, LabelText(label)), st[Bare(o.s)] - st[Bare(o.s2)]),
                Bare(label), st[Bare(o.s)] - st[Bare(o.s2)])
       ELSE st
  ELSE IF o.k = "num" /\ o.n >= 0
  THEN Put(Put(st, Scoped(csect, LabelText(label)), o.n), Bare(label), o.n)
  ELSE st

\* the bytes of a BYTE operand as pass1 counts them
ByteSize(o) == IF o.s = "C" THEN o.n ELSE o.n \div 2

\* locctr advance for a mnemonic of the opcode table
InstructionSize(ln) ==
  IF ln.plus THEN 4
  ELSE IF Format2Only(ln.opcode) THEN 2
  ELSE 3

NoEffect(loc, lt, st) ==
  [locctr |-> loc, littab |-> lt, symtab |-> st, recs |-> << >>, err |-> ""]

Raise(loc, lt, st, e) ==
  [locctr |-> loc, littab |-> lt, symtab |-> st, recs |-> << >>, err |-> e]

\* the if/elif chain of pass1 on the opcode, after the label is bound:
\* the new locctr, littab and symtab, the synthetic literal records, the error
Pass1Advance(ln, loc, lt, st, block, csect, lno) ==
  LET o == ln.operand IN
  IF InOptab(ln.opcode)
  THEN NoEffect(loc + InstructionSize(ln), lt, st)
  ELSE IF ln.opcode = "EQU"
  THEN IF o.k = "none" THEN Raise(loc, lt, st, "TypeError")
       ELSE NoEffect(loc, lt, EquSymtab(st, csect, ln.label, o))
  ELSE IF ln.opcode = "WORD"
  THEN NoEffect(loc + 3, lt, st)
  ELSE IF ln.opcode = "RESW"
  THEN IF o.k # "num" THEN Raise(loc, lt, st, "ValueError")
       ELSE IF 3 * o.n > LargeReservation
       THEN LET f == FlushBeforeReservation(lt, 1, loc, block)
            IN NoEffect(f.locctr + 3 * o.n, f.littab, st)
       ELSE NoEffect(loc + 3 * o.n, lt, st)
  ELSE IF ln.opcode = "RESB"
  THEN IF o.k \notin {"num", "none"} THEN Raise(loc, lt, st, "ValueError")
       ELSE LET res_size == IF o.k = "none" THEN 0 ELSE o.n IN
            IF res_size > LargeReservation
            THEN LET f == FlushBeforeReservation(lt, 1, loc, block)
                 IN NoEffect(f.locctr + res_size, f.littab, st)
            ELSE NoEffect(loc + res_size, lt, st)
  ELSE IF ln.opcode = "BYTE"
  THEN IF o.k = "none" THEN Raise(loc, lt, st, "AttributeError")
       ELSE IF o.k = "const" /\ o.s \in {"C", "X"}
       THEN NoEffect(loc + ByteSize(o), lt, st)
       ELSE Raise(loc, lt, st, "InvalidByteOperand")
  ELSE IF ln.opcode \in {"LTORG", "END"}
  THEN LET f == PlaceLiterals(lt, 1, loc, block, lno, << >>)
       IN [locctr |-> f.locctr, littab |-> f.littab, symtab |-> st,
           recs |-> f.recs, err |-> ""]
  ELSE NoEffect(loc, lt, st)

\* one intermediate record
Record(lno, loc, ln, block) ==
  [lineno |-> (lno - 1) * 5, loc |-> loc, line |-> ln, block |-> block]

-----------------------------------------------------------------------------
(* Pass 1: the block layout after the walk *)

\* the control section a block name is taken to belong to
CsectOf(name) == IF Len(name) > 1 THEN << name[1] >> ELSE name

\* b == csect or b.startswith(f"{csect}_")
InCsect(b, csect) == b = csect \/ (Len(b) > 1 /\ << b[1] >> = csect)

\* sizes of the blocks among the first k that the section's USE loop passes
RECURSIVE EarlierUseSizes(_, _, _)
EarlierUseSizes(bt, csect, k) ==
  IF k = 0 THEN 0
  ELSE EarlierUseSizes(bt, csect, k - 1)
       + (IF InCsect(bt[k].name, csect) /\ bt[k].name # csect THEN bt[k].size ELSE 0)

RECURSIVE SumSizes(_, _)
SumSizes(bt, k) == IF k = 0 THEN 0 ELSE SumSizes(bt, k - 1) + bt[k].size

\* size = locctr for every block
WithSizes(bt) == [i \in 1..Len(bt) |-> [bt[i] EXCEPT !.size = bt[i].locctr]]

\* the address loop: a section's main block at 0, its other blocks after it
WithAddresses(bt) ==
  [i \in 1..Len(bt) |->
     LET csect == CsectOf(bt[i].name) IN
     IF bt[i].name = csect THEN [bt[i] EXCEPT !.address = 0]
     ELSE [bt[i] EXCEPT !.address =
             (IF HasBlock(bt, csect) THEN Block(bt, csect).size ELSE 0)
             + EarlierUseSizes(bt, csect, i - 1)]]

Layout(bt, block, loc) == WithAddresses(WithSizes(SaveLocctr(bt, block, loc)))

-----------------------------------------------------------------------------
(* Source programs: the statements each family of programs is drawn from *)

\* bytes of a BYTE constant that nearly fills a text record
NearlyFull == 29

\* bytes a large reservation covers
FarAway == 5000

\* operands of START (read by int(): decimal)
StartAddresses == {0, 1000}

Suites ==
  {"packing", "addressing", "sections", "literals", "linking", "base", "layout",
   "values"}

\* the opcode tables a family of programs is assembled with: with and
\* without BASE where the programs have BASE lines
TablesOf(su) == IF su = "base" THEN BOOLEAN ELSE {FALSE}

Statements(su) ==
  IF su = "packing" THEN
    { Line("", "BYTE", FALSE, Const("X", 2 * NearlyFull, "F1")),
      Line("X", "JSUB", TRUE, Sym("X")),
      Line("", "RSUB", FALSE, NoOperand),
      Line("", "CLEAR", FALSE, Regs("A", "")),
      Line("", "WORD", FALSE, Num(5)),
      Line("", "RESW", FALSE, Num(1)) }
  ELSE IF su = "addressing" THEN
    { Line("X", "LDA", FALSE, Sym("X")),
      Line("", "STL", FALSE, SymX("Y")),
      Line("Y", "RESB", FALSE, Num(FarAway)),
      Line("", "LDA", FALSE, ImmNum(FarAway)),
      Line("", "LDT", FALSE, Ind("X")),
      Line("", "RSUB", TRUE, NoOperand) }
  ELSE IF su = "sections" THEN
    { Line("PROG1", "CSECT", FALSE, NoOperand),
      Line("PROG2", "CSECT", FALSE, NoOperand),
      Line("", "USE", FALSE, Sym("CDATA")),
      Line("X", "RESW", FALSE, Num(1)),
      Line("", "LDA", FALSE, Sym("X")),
      Line("X", "EQU", FALSE, Star(0)) }
  ELSE IF su = "literals" THEN
    { Line("", "LDA", FALSE, Lit("C", 3, "EOF")),
      Line("", "LDA", FALSE, Lit("X", 2, "05")),
      Line("", "LTORG", FALSE, NoOperand),
      Line("", "RESB", FALSE, Num(FarAway)),
      Line("", "END", FALSE, NoOperand),
      Line("", "JSUB", TRUE, Lit("C", 3, "EOF")) }
  ELSE IF su = "linking" THEN
    { Line("", "EXTREF", FALSE, Names("RDREC", "WRREC")),
      Line("", "EXTDEF", FALSE, Names("X", "")),
      Line("", "JSUB", TRUE, Sym("RDREC")),
      Line("X", "WORD", FALSE, Expr("RDREC", -1, "WRREC")),
      Line("", "WORD", FALSE, Expr("X", 1, "RDREC")),
      Line("", "JSUB", TRUE, Sym("X")),
      Line("", "END", FALSE, Sym("X")) }
  ELSE IF su = "base" THEN
    { Line("", "BASE", FALSE, Sym("Y")),
      Line("", "NOBASE", FALSE, NoOperand),
      Line("X", "RESB", FALSE, Num(FarAway)),
      Line("Y", "LDA", FALSE, Sym("X")),
      Line("", "STL", FALSE, Sym("Y")) }
  ELSE IF su = "layout" THEN
    { Line("", "CSECT", FALSE, NoOperand),
      Line("MY_SEC", "CSECT", FALSE, NoOperand),
      Line("", "USE", FALSE, Sym("CDATA")),
      Line("", "USE", FALSE, NoOperand),
      Line("", "RSUB", FALSE, NoOperand),
      Line("", "RESW", FALSE, Num(1)) }
  ELSE
    { Line("A", "RESW", FALSE, Num(1)),
      Line("X", "EQU", FALSE, Expr("A", 1, "A")),
      Line("Y", "EQU", FALSE, Sym("A")),
      Line("Z", "EQU", FALSE, Expr("X", -1, "A")),
      Line("", "LDT", TRUE, ImmNum(FarAway)),
      Line("", "LDA", TRUE, Sym("X")) }

-----------------------------------------------------------------------------
(* The state before assemble_file reads its first line *)

\* the variables of pass1, pass2 and the output before pass1 has run
BeforePass1 ==
  /\ files = {}
  /\ err = ""
  /\ lineno = 2
  /\ locctr = 0
  /\ current_block = DEFAULT
  /\ current_csect = DEFAULT
  /\ blocktab = << NewBlock(DEFAULT) >>
  /\ symtab = EmptyDict
  /\ symtab_block = EmptyDict
  /\ littab = << >>
  /\ intermediate = << >>
  /\ extdef = {}
  /\ extref = {}
  /\ start_address = 0
  /\ program_length = 0
  /\ idx = 1
  /\ BASE_ADDR = 0
  /\ fixed_symtab = EmptyDict
  /\ object_codes = << >>
  /\ current_text = << >>
  /\ current_start = NoAddr
  /\ text_records = << >>
  /\ mod_records = << >>
  /\ emitted_literals = {}
  /\ records = << >>
  /\ label_lines = EmptyDict

Init ==
  /\ suite \in Suites
  /\ optab_base \in TablesOf(suite)
  /\ pc = "start"
  /\ BeforePass1
  /\ lines = << >>
  /\ line_i = 1
  /\ macros = EmptyDict
  /\ expanded = << >>
  /\ given = << >>

\* an exception leaves assemble_file: nothing after it runs
Fail(e) ==
  /\ pc' = "failed"
  /\ err' = e

-----------------------------------------------------------------------------
(* Pass 1 *)

\* the first line is "name START addr": start_address and locctr come from it
P1Start ==
  /\ pc = "start"
  /\ \E a \in StartAddresses :
       /\ start_address' = a
       /\ locctr' = a
       /\ intermediate' = << [lineno |-> 5, loc |-> a,
                              line |-> Line("COPY", "START", FALSE, Num(a)),
                              block |-> current_block] >>
  /\ pc' = "pass1"
  /\ UNCHANGED << suite, optab_base, files, prevars, label_lines, err, lineno, current_block, current_csect, blocktab, symtab,
                  symtab_block, littab, extdef, extref, program_length, p2vars >>

\* the first line is not a START line: it is walked like every other line
P1NoStart ==
  /\ pc = "start"
  /\ pc' = "pass1"
  /\ UNCHANGED << suite, optab_base, files, prevars, label_lines, err, p1vars, p2vars >>

MoreLines == pc = "pass1" /\ lineno - 2 < MaxLines

\* [label] CSECT [operand]
P1Csect ==
  /\ MoreLines
  /\ \E ln \in Statements(suite) :
       /\ ln.opcode = "CSECT"
       /\ LET name == IF ln.label # "" THEN Segs(ln.label)
                      ELSE IF ln.operand.k # "none" THEN Segs(ln.operand.s)
                      ELSE << "CSECT", ToString(lineno) >>
              bt == SaveLocctr(WithBlock(blocktab, name), current_block, locctr)
          IN /\ current_csect' = name
             /\ current_block' = name
             /\ blocktab' = bt
             /\ locctr' = Block(bt, name).locctr
             /\ intermediate' =
                  Append(intermediate, Record(lineno, Block(bt, name).locctr, ln, name))
  /\ lineno' = lineno + 1
  /\ UNCHANGED << suite, optab_base, files, prevars, label_lines, pc, err, symtab, symtab_block, littab, extdef, extref,
                  start_address, program_length, p2vars >>

\* USE [operand]
P1Use ==
  /\ MoreLines
  /\ \E ln \in Statements(suite) :
       /\ ln.opcode = "USE"
       /\ LET operand == IF ln.operand.k = "none" THEN "DEFAULT" ELSE ln.operand.s
              block_key == current_csect \o Segs(operand)
              bt == SaveLocctr(WithBlock(blocktab, block_key), current_block, locctr)
          IN /\ current_block' = block_key
             /\ blocktab' = bt
             /\ locctr' = Block(bt, block_key).locctr
             /\ intermediate' =
                  Append(intermediate,
                         Record(lineno, Block(bt, block_key).locctr, ln, block_key))
  /\ lineno' = lineno + 1
  /\ UNCHANGED << suite, optab_base, files, prevars, label_lines, pc, err, current_csect, symtab, symtab_block, littab, extdef,
                  extref, start_address, program_length, p2vars >>

\* the names of a comma-separated operand, empty pieces dropped
NameSet(o) == IF o.k = "none" THEN {} ELSE {o.s, o.s2} \ {""}

\* EXTDEF names / EXTREF names
P1Ext ==
  /\ MoreLines
  /\ \E ln \in Statements(suite) :
       /\ ln.opcode \in {"EXTDEF", "EXTREF"}
       /\ extdef' = IF ln.opcode = "EXTDEF" THEN extdef \cup NameSet(ln.operand) ELSE extdef
       /\ extref' = IF ln.opcode = "EXTREF" THEN extref \cup NameSet(ln.operand) ELSE extref
       /\ intermediate' = Append(intermediate, Record(lineno, locctr, ln, current_block))
  /\ lineno' = lineno + 1
  /\ UNCHANGED << suite, optab_base, files, prevars, label_lines, pc, err, locctr, current_block, current_csect, blocktab, symtab,
                  symtab_block, littab, start_address, program_length, p2vars >>

\* the lines the walk handles before it looks at label and opcode
Early == {"CSECT", "USE", "EXTDEF", "EXTREF"}

\* what one line does to littab, symtab and locctr, from the literal
\* registration to the opcode chain
Pass1Line(ln) ==
  LET lt == RegisterLiteral(littab, ln.operand, current_block)
      st == BindLabel(symtab, current_csect, ln.label, locctr)
  IN IF IsDuplicate(symtab, current_csect, ln.label)
     THEN Raise(locctr, lt, symtab, "DuplicateSymbol")
     ELSE Pass1Advance(ln, locctr, lt, st, current_block, current_csect, lineno)

\* symtab_block after the label binding
BlockOfLabel(sb, csect, label, block) ==
  IF label = "" THEN sb
  ELSE Put(Put(sb, Scoped(csect, label), block), Bare(label), block)

\* history of the walk: the line at lno carries this label in this section
Noted(ll, csect, label, lno) ==
  IF label = "" THEN ll
  ELSE Put(ll, Scoped(csect, label),
           (IF Scoped(csect, label) \in DOMAIN ll THEN ll[Scoped(csect, label)] ELSE {})
           \cup {lno})

\* any other line but END
P1Statement ==
  /\ MoreLines
  /\ \E ln \in Statements(suite) :
       /\ ln.opcode \notin Early \cup {"END"}
       /\ label_lines' = Noted(label_lines, current_csect, ln.label, lineno)
       /\ LET r == Pass1Line(ln) IN
          IF r.err # ""
          THEN /\ Fail(r.err)
               /\ UNCHANGED << suite, optab_base, files, prevars, p1vars, p2vars >>
          ELSE /\ littab' = r.littab
               /\ symtab' = r.symtab
               /\ symtab_block' =
                    BlockOfLabel(symtab_block, current_csect, ln.label, current_block)
               /\ locctr' = r.locctr
               /\ blocktab' = SaveLocctr(blocktab, current_block, r.locctr)
               /\ intermediate' =
                    Append(intermediate \o r.recs,
                           Record(lineno, r.locctr, ln, current_block))
               /\ lineno' = lineno + 1
               /\ UNCHANGED << suite, optab_base, files, prevars, pc, err, current_block, current_csect, extdef,
                               extref, start_address, program_length, p2vars >>

\* END: place the pending literals, leave the loop, lay the blocks out
P1End ==
  /\ MoreLines
  /\ \E ln \in Statements(suite) :
       /\ ln.opcode = "END"
       /\ label_lines' = Noted(label_lines, current_csect, ln.label, lineno)
       /\ LET r == Pass1Line(ln) IN
          IF r.err # ""
          THEN /\ Fail(r.err)
               /\ UNCHANGED << suite, optab_base, files, prevars, p1vars, p2vars >>
          ELSE LET bt == Layout(blocktab, current_block, r.locctr) IN
               /\ littab' = r.littab
               /\ symtab' = r.symtab
               /\ symtab_block' =
                    BlockOfLabel(symtab_block, current_csect, ln.label, current_block)
               /\ locctr' = r.locctr
               /\ blocktab' = bt
               /\ program_length' = SumSizes(bt, Len(bt))
               /\ intermediate' =
                    Append(intermediate \o r.recs,
                           Record(lineno, r.locctr, ln, current_block))
               /\ pc' = "laid"
               /\ UNCHANGED << suite, optab_base, files, prevars, err, lineno, current_block, current_csect, extdef,
                               extref, start_address, p2vars >>

\* the lines run out without an END line: lay the blocks out
P1Eof ==
  /\ pc = "pass1"
  /\ LET bt == Layout(blocktab, current_block, locctr) IN
       /\ blocktab' = bt
       /\ program_length' = SumSizes(bt, Len(bt))
  /\ pc' = "laid"
  /\ UNCHANGED << suite, optab_base, files, prevars, label_lines, err, lineno, locctr, current_block, current_csect, symtab,
                  symtab_block, littab, intermediate, extdef, extref, start_address,
                  p2vars >>

Pass1Next == P1Start \/ P1NoStart \/ P1Csect \/ P1Use \/ P1Ext \/ P1Statement \/ P1End \/ P1Eof

-----------------------------------------------------------------------------
(* Pass 2: encoding *)

\* an object string: its length in hex characters and the number it prints
\* (NoAddr for BYTE data), tagged with the value of the local disp when it
\* was packed, and with the address and the intermediate record it was
\* generated for
Obj(hex, word, disp, tloc, i) ==
  [hex |-> hex, word |-> word, disp |-> disp, at |-> tloc, src |-> i]

\* the operand with '#', '@' and ',X' removed, when what is left is a name;
\* the empty string stands for a text that is no symbol
SymbolText(o) == IF o.k \in {"sym", "immsym", "ind"} THEN o.s ELSE ""

Defined(st, name) == name # "" /\ Bare(name) \in DOMAIN st

InPcRange(disp) == PcMin <= disp /\ disp <= PcMax

InBaseRange(d) == 0 <= d /\ d <= BaseMax

\* (code << 16) | (n << 17) | (i << 16) | (x << 15) | (b << 14) | (p << 13)
\* | (e << 12) | (disp & 0xFFF): the fields do not overlap, the opcodes of
\* the table having their two low bits clear, so the OR is a sum
Pack3(code, n, i, x, b, p, e, disp) ==
  code * Pow2(16) + n * Pow2(17) + i * Pow2(16) + x * Pow2(15) + b * Pow2(14)
  + p * Pow2(13) + e * Pow2(12) + (disp % Mod12)

\* (code << 24) | (n << 25) | (i << 24) | (x << 23) | (b << 22) | (p << 21)
\* | (e << 20) | (target_addr & 0xFFFFF)
Pack4(code, n, i, x, b, p, e, target) ==
  code * Pow2(24) + n * Pow2(25) + i * Pow2(24) + x * Pow2(23) + b * Pow2(22)
  + p * Pow2(21) + e * Pow2(20) + (target % Mod20)

\* the flags pass2 starts every format 3/4 instruction with
InitB == 1
InitP == 0

\* the result of encoding one instruction
Encoded(word, disp, base) == [err |-> "", word |-> word, disp |-> disp, base |-> base]
Refused(e, base) == [err |-> e, word |-> 0, disp |-> 0, base |-> base]

\* the base-relative fallback for a target out of PC-relative range:
\* [err, b, p, disp, base]
BaseFallback(target, base) ==
  IF InBaseRange(target - base)
  THEN [err |-> "", b |-> 1, p |-> 0, disp |-> target - base, base |-> base]
  ELSE LET new_base == Max(0, target - 2048) IN
       IF InBaseRange(target - new_base)
       THEN [err |-> "", b |-> 1, p |-> 0, disp |-> target - new_base, base |-> new_base]
       ELSE [err |-> "DisplacementOutOfRange", b |-> InitB, p |-> InitP, disp |-> 0,
             base |-> base]

\* displacement and flags when the target is known: PC-relative range test,
\* then the fallback
Displace(target, tloc, base) ==
  LET disp == target - (tloc + 3) IN
  IF InPcRange(disp)
  THEN [err |-> "", b |-> InitB, p |-> InitP, disp |-> disp, base |-> base]
  ELSE BaseFallback(target, base)

\* n and i of the addressing prefix
FlagN(o) == IF o.k \in {"immnum", "immsym"} THEN 0 ELSE 1
FlagI(o) == IF o.k = "ind" THEN 0 ELSE 1
FlagX(o) == IF o.x THEN 1 ELSE 0

\* a format-3 instruction with an operand
Format3(code, o, tloc, st, lt, bt, ext, base) ==
  IF o.k = "lit"
  THEN IF ~HasLiteral(lt, o) THEN Refused("KeyError", base)
       ELSE IF Literal(lt, o).address = NoAddr THEN Refused("TypeError", base)
       ELSE LET lit == Literal(lt, o)
                d == Displace(lit.address + Block(bt, lit.block).address, tloc, base)
            IN IF d.err # "" THEN Refused(d.err, base)
               ELSE Encoded(Pack3(code, 1, 1, 0, d.b, d.p, 0, d.disp), d.disp, d.base)
  ELSE IF o.k = "immnum"
  THEN Encoded(Pack3(code, 0, 1, 0, InitB, InitP, 0, o.n), o.n, base)
  ELSE IF o.k \in {"immsym", "ind"}
  THEN IF ~Defined(st, o.s) THEN Refused("KeyError", base)
       ELSE LET d == Displace(st[Bare(o.s)], tloc, base)
            IN IF d.err # "" THEN Refused(d.err, base)
               ELSE Encoded(Pack3(code, FlagN(o), FlagI(o), 0, d.b, d.p, 0, d.disp),
                            d.disp, d.base)
  ELSE IF o.k = "star"
  THEN IF InPcRange(o.n - 3)
       THEN Encoded(Pack3(code, 1, 1, FlagX(o), InitB, InitP, 0, o.n - 3), o.n - 3, base)
       ELSE Refused("DisplacementOutOfRange", base)
  ELSE IF ~Defined(st, SymbolText(o)) /\ SymbolText(o) \notin ext
  THEN Refused("UndefinedSymbol", base)
  ELSE IF Defined(st, o.s)
  THEN LET d == Displace(st[Bare(o.s)], tloc, base)
       IN IF d.err # "" THEN Refused(d.err, base)
          ELSE Encoded(Pack3(code, 1, 1, FlagX(o), d.b, d.p, 0, d.disp), d.disp, d.base)
  ELSE Encoded(Pack3(code, 1, 1, FlagX(o), InitB, InitP, 0, 0), 0, base)

\* a format 3/4 mnemonic without operand: six hex digits, the '+' not looked at
NoOperandWord(code) == Pack3(code, 1, 1, 0, InitB, InitP, 0, 0)

\* target_addr of an extended instruction
Target4(o, st) == IF Defined(st, SymbolText(o)) THEN st[Bare(SymbolText(o))] ELSE 0

\* an extended (format 4) instruction with an operand
Format4(code, o, st) ==
  Pack4(code, FlagN(o), FlagI(o), FlagX(o), 0, 0, 1, Target4(o, st))

\* register codes; an unknown name is 0
RegCode(r) ==
  IF r = "X" THEN 1 ELSE IF r = "L" THEN 2 ELSE IF r = "B" THEN 3
  ELSE IF r = "S" THEN 4 ELSE IF r = "T" THEN 5 ELSE IF r = "F" THEN 6 ELSE 0

\* (code << 8) | (r1 << 4) | r2
Format2(code, o) ==
  code * Pow2(8) + (IF o.k = "regs" THEN RegCode(o.s) * 16 + RegCode(o.s2) ELSE 0)

\* a WORD term that queues an M record for an added external name only
WordTermPositiveOnly(name, sign, tloc, block, st, ext) ==
  IF name \in ext
  THEN [value |-> 0,
        mods |-> IF sign = 1
                 THEN << [addr |-> tloc, length |-> 6, sign |-> sign, sym |-> name] >>
                 ELSE << >>]
  ELSE IF Scoped(CsectOf(block), name) \in DOMAIN st
  THEN [value |-> sign * st[Scoped(CsectOf(block), name)], mods |-> << >>]
  ELSE IF Defined(st, name)
  THEN [value |-> sign * st[Bare(name)], mods |-> << >>]
  ELSE [value |-> 0, mods |-> << >>]

\* one term of a WORD expression: [value, mods]
WordTerm(name, sign, tloc, block, st, ext) ==
  IF name \in ext
  THEN [value |-> 0,
        mods |-> << [addr |-> tloc, length |-> 6, sign |-> sign, sym |-> name] >>]
  ELSE IF Scoped(CsectOf(block), name) \in DOMAIN st
  THEN [value |-> sign * st[Scoped(CsectOf(block), name)], mods |-> << >>]
  ELSE IF Defined(st, name)
  THEN [value |-> sign * st[Bare(name)], mods |-> << >>]
  ELSE [value |-> 0, mods |-> << >>]

\* a WORD line: [err, word, mods]
Word(o, tloc, block, st, ext) ==
  IF o.k = "none" THEN [err |-> "TypeError", word |-> 0, mods |-> << >>]
  ELSE IF o.k = "expr"
  THEN LET a == WordTerm(o.s, 1, tloc, block, st, ext)
           b == WordTerm(o.s2, o.sg, tloc, block, st, ext)
       IN [err |-> "", word |-> (a.value + b.value) % Mod24, mods |-> a.mods \o b.mods]
  ELSE IF o.k = "num" /\ o.n < 0
  THEN [err |-> "", word |-> o.n % Mod24, mods |-> << >>]
  ELSE IF o.k = "num"
  THEN [err |-> "", word |-> o.n, mods |-> << >>]
  ELSE [err |-> "ValueError", word |-> 0, mods |-> << >>]

\* hex characters of a BYTE operand: two per character of C'...', the
\* digits of X'...' as they stand
ByteHex(o) == IF o.s = "C" THEN 2 * o.n ELSE o.n

-----------------------------------------------------------------------------
(* Pass 2: text records and the walk over the intermediate records *)

RECURSIVE HexLen(_)
\* sum(len(x) for x in current_text)
HexLen(text) == IF text = << >> THEN 0 ELSE Head(text).hex + HexLen(Tail(text))

RECURSIVE ByteLen(_)
\* sum(len(x)//2 for x in current_text)
ByteLen(text) == IF text = << >> THEN 0 ELSE (Head(text).hex \div 2) + ByteLen(Tail(text))

\* f"T{hexstr(current_start,6)}{hexstr(sum(...),2)}{''.join(current_text)}"
TextRecord(start, text) ==
  [t |-> "T", start |-> start, nbytes |-> ByteLen(text), body |-> text]

\* the split test after an instruction: the record is closed once it holds
\* more than MaxTextHex characters
SplitNow(text) == HexLen(text) > MaxTextHex

\* if current_start is None: current_start = tloc
StartAt(start, tloc) == IF start = NoAddr THEN tloc ELSE start

\* the names sorted() puts in order, in that order
NameOrder == << "BUFFER", "RDREC", "WRREC", "X" >>

Sorted(S) == SelectSeq(NameOrder, LAMBDA nm : nm \in S)

\* the orders in which iterating a set of strings can yield its members
\* (pass2 turns the sorted EXTREF list back into a set)
Orders(S) ==
  { f \in [1..Cardinality(S) -> S] : \A a \in S : \E k \in 1..Cardinality(S) : f[k] = a }

\* program_name of pass1: never assigned from the START line
ProgramName == "NONAME"

\* the record pass2 is at, and its address with the block base folded in
Cur == intermediate[idx]
Tloc == Block(blocktab, Cur.block).address + Cur.loc

Walking == pc = "pass2" /\ idx <= Len(intermediate)

\* the M record of an extended instruction whose operand is an EXTREF name
TargetText(o) ==
  IF o.k \in {"sym", "immsym", "ind"} THEN o.s
  ELSE IF o.k = "regs" /\ o.s2 = "" THEN o.s
  ELSE ""

ExtendedMods(ln, tloc, ext) ==
  IF ln.plus /\ TargetText(ln.operand) \in ext
  THEN << [addr |-> tloc + 1, length |-> 5, sign |-> 0, sym |-> TargetText(ln.operand)] >>
  ELSE << >>

\* object_codes.append, current_start, current_text.append, then the split
EmitInstruction(objs, mods) ==
  LET text == current_text \o objs
      start == StartAt(current_start, Tloc)
  IN /\ object_codes' =
          object_codes \o [k \in 1..Len(objs) |->
                             [tloc |-> Tloc, obj |-> objs[k], block |-> Cur.block]]
     /\ mod_records' = mod_records \o mods
     /\ IF SplitNow(text)
        THEN /\ text_records' = Append(text_records, TextRecord(start, text))
             /\ current_text' = << >>
             /\ current_start' = NoAddr
        ELSE /\ text_records' = text_records
             /\ current_text' = text
             /\ current_start' = start

\* the symbol table folded with the block addresses, before the walk
P2Begin ==
  /\ pc = "laid"
  /\ IF \E k \in DOMAIN symtab : k \notin DOMAIN symtab_block
     THEN /\ Fail("KeyError")
          /\ UNCHANGED fixed_symtab
     ELSE /\ fixed_symtab' =
               [k \in DOMAIN symtab |->
                  symtab[k] + Block(blocktab, symtab_block[k]).address]
          /\ pc' = "pass2"
          /\ UNCHANGED err
  /\ UNCHANGED << suite, optab_base, files, prevars, label_lines, p1vars, idx, BASE_ADDR, object_codes, current_text,
                  current_start, text_records, mod_records, emitted_literals, records >>

\* a format-2 mnemonic: the object string is appended in the format-2
\* branch and again by the code shared with formats 3 and 4
P2Format2 ==
  /\ Walking
  /\ InOptab(Cur.line.opcode) /\ Format2Only(Cur.line.opcode)
  /\ LET obj == Obj(4, Format2(OPTAB[Cur.line.opcode].opcode, Cur.line.operand), 0, Tloc, idx)
     IN EmitInstruction(<< obj, obj >>, ExtendedMods(Cur.line, Tloc, extref))
  /\ idx' = idx + 1
  /\ UNCHANGED << suite, optab_base, files, prevars, label_lines, pc, err, p1vars, BASE_ADDR, fixed_symtab, emitted_literals,
                  records >>

\* BASE, when the opcode table lists it: BASE_ADDR = symtab[operand]
P2Base ==
  /\ Walking
  /\ InOptab(Cur.line.opcode) /\ Cur.line.opcode = "BASE"
  /\ IF Defined(fixed_symtab, SymbolText(Cur.line.operand))
     THEN /\ BASE_ADDR' = fixed_symtab[Bare(SymbolText(Cur.line.operand))]
          /\ idx' = idx + 1
          /\ UNCHANGED << pc, err >>
     ELSE /\ Fail("KeyError")
          /\ UNCHANGED << idx, BASE_ADDR >>
  /\ UNCHANGED << suite, optab_base, files, prevars, label_lines, p1vars, fixed_symtab, object_codes,
                  current_text, current_start, text_records, mod_records,
                  emitted_literals, records >>

\* a mnemonic of format 3/4: in the table, not format 2, not BASE
Format34(opcode) == InOptab(opcode) /\ ~Format2Only(opcode) /\ opcode # "BASE"

\* a format 3/4 mnemonic without operand: emitted, then "continue"
P2NoOperand ==
  /\ Walking
  /\ Format34(Cur.line.opcode)
  /\ Cur.line.operand.k = "none"
  /\ LET obj == Obj(6, NoOperandWord(OPTAB[Cur.line.opcode].opcode), 0, Tloc, idx) IN
       /\ object_codes' =
            Append(object_codes, [tloc |-> Tloc, obj |-> obj, block |-> Cur.block])
       /\ current_start' = StartAt(current_start, Tloc)
       /\ current_text' = Append(current_text, obj)
  /\ idx' = idx + 1
  /\ UNCHANGED << suite, optab_base, files, prevars, label_lines, pc, err, p1vars, BASE_ADDR, fixed_symtab, text_records,
                  mod_records, emitted_literals, records >>

\* a format-3 instruction with an operand
P2Format3 ==
  /\ Walking
  /\ Format34(Cur.line.opcode)
  /\ Cur.line.operand.k # "none" /\ ~Cur.line.plus
  /\ LET r == Format3(OPTAB[Cur.line.opcode].opcode, Cur.line.operand, Tloc,
                      fixed_symtab, littab, blocktab, extref, BASE_ADDR)
     IN IF r.err # ""
        THEN /\ Fail(r.err)
             /\ UNCHANGED << idx, BASE_ADDR, object_codes, current_text, current_start,
                             text_records, mod_records >>
        ELSE /\ EmitInstruction(<< Obj(6, r.word, r.disp, Tloc, idx) >>, << >>)
             /\ BASE_ADDR' = r.base
             /\ idx' = idx + 1
             /\ UNCHANGED << pc, err >>
  /\ UNCHANGED << suite, optab_base, files, prevars, label_lines, p1vars, fixed_symtab, emitted_literals, records >>

\* an extended instruction with an operand
P2Format4 ==
  /\ Walking
  /\ Format34(Cur.line.opcode)
  /\ Cur.line.operand.k # "none" /\ Cur.line.plus
  /\ EmitInstruction(
       << Obj(8, Format4(OPTAB[Cur.line.opcode].opcode, Cur.line.operand, fixed_symtab),
              0, Tloc, idx) >>,
       ExtendedMods(Cur.line, Tloc, extref))
  /\ idx' = idx + 1
  /\ UNCHANGED << suite, optab_base, files, prevars, label_lines, pc, err, p1vars, BASE_ADDR, fixed_symtab, emitted_literals,
                  records >>

\* BYTE and WORD: appended to the text buffer, which is not split here
P2Data ==
  /\ Walking
  /\ Cur.line.opcode \in {"BYTE", "WORD"}
  /\ LET o == Cur.line.operand
         w == Word(o, Tloc, Cur.block, fixed_symtab, extref)
         bad == IF Cur.line.opcode = "WORD" THEN w.err
                ELSE IF o.k = "none" THEN "AttributeError"
                ELSE IF o.k = "const" /\ o.s \in {"C", "X"} THEN ""
                ELSE "InvalidByteOperand"
         obj == IF Cur.line.opcode = "WORD" THEN Obj(6, w.word, 0, Tloc, idx)
                ELSE Obj(ByteHex(o), NoAddr, 0, Tloc, idx)
     IN IF bad # ""
        THEN /\ Fail(bad)
             /\ UNCHANGED << idx, object_codes, current_text, current_start, mod_records >>
        ELSE /\ object_codes' =
                  Append(object_codes, [tloc |-> Tloc, obj |-> obj, block |-> Cur.block])
             /\ current_start' = StartAt(current_start, Tloc)
             /\ current_text' = Append(current_text, obj)
             /\ mod_records' =
                  mod_records \o (IF Cur.line.opcode = "WORD" THEN w.mods ELSE << >>)
             /\ idx' = idx + 1
             /\ UNCHANGED << pc, err >>
  /\ UNCHANGED << suite, optab_base, files, prevars, label_lines, p1vars, BASE_ADDR, fixed_symtab, text_records,
                  emitted_literals, records >>

\* RESW and RESB close the open text record
P2Reserve ==
  /\ Walking
  /\ Cur.line.opcode \in {"RESW", "RESB"}
  /\ IF current_text # << >>
     THEN /\ text_records' = Append(text_records, TextRecord(current_start, current_text))
          /\ current_text' = << >>
          /\ current_start' = NoAddr
     ELSE UNCHANGED << text_records, current_text, current_start >>
  /\ idx' = idx + 1
  /\ UNCHANGED << suite, optab_base, files, prevars, label_lines, pc, err, p1vars, BASE_ADDR, fixed_symtab, object_codes,
                  mod_records, emitted_literals, records >>

\* a literal the LTORG/END loop of pass2 does not skip
Pending(lt, emitted) ==
  \E i \in 1..Len(lt) : lt[i].lit \notin emitted /\ lt[i].address # NoAddr

\* LTORG and END: the loop over littab reads the name "address", which pass2
\* never binds, at the first literal it does not skip; END leaves the walk
P2Pool ==
  /\ Walking
  /\ Cur.line.opcode \in {"LTORG", "END"}
  /\ IF Pending(littab, emitted_literals)
     THEN /\ Fail("NameError")
          /\ UNCHANGED idx
     ELSE /\ idx' = IF Cur.line.opcode = "END" THEN Len(intermediate) + 1 ELSE idx + 1
          /\ UNCHANGED << pc, err >>
  /\ UNCHANGED << suite, optab_base, files, prevars, label_lines, p1vars, BASE_ADDR, fixed_symtab, object_codes, current_text,
                  current_start, text_records, mod_records, emitted_literals, records >>

\* every other record (START, CSECT, USE, EXTDEF, EXTREF, EQU, ...): no branch
P2Skip ==
  /\ Walking
  /\ ~InOptab(Cur.line.opcode)
  /\ Cur.line.opcode \notin {"BYTE", "WORD", "RESW", "RESB", "LTORG", "END"}
  /\ idx' = idx + 1
  /\ UNCHANGED << suite, optab_base, files, prevars, label_lines, pc, err, p1vars, BASE_ADDR, fixed_symtab, object_codes,
                  current_text, current_start, text_records, mod_records,
                  emitted_literals, records >>

\* after the walk: the last text record, then H, D, R, T..., M..., E
P2Finish ==
  /\ pc = "pass2" /\ idx > Len(intermediate)
  /\ \E ref_records \in Orders(extref) :
     LET trs == IF current_text # << >>
                THEN Append(text_records, TextRecord(current_start, current_text))
                ELSE text_records
         defs == SelectSeq(Sorted(extdef), LAMBDA nm : Defined(fixed_symtab, nm))
         def_records == [k \in 1..Len(defs) |->
                           [name |-> defs[k], addr |-> fixed_symtab[Bare(defs[k])]]]
     IN /\ text_records' = trs
        /\ records' =
             << [t |-> "H", name |-> ProgramName, start |-> start_address,
                 length |-> program_length] >>
             \o (IF def_records # << >> THEN << [t |-> "D", defs |-> def_records] >>
                 ELSE << >>)
             \o (IF ref_records # << >> THEN << [t |-> "R", refs |-> ref_records] >>
                 ELSE << >>)
             \o trs
             \o [k \in 1..Len(mod_records) |->
                   [t |-> "M", addr |-> mod_records[k].addr,
                    length |-> mod_records[k].length, sign |-> mod_records[k].sign,
                    sym |-> mod_records[k].sym]]
             \o << [t |-> "E", start |-> start_address] >>
  /\ pc' = "done"
  /\ UNCHANGED << suite, optab_base, files, prevars, label_lines, err, p1vars, idx, BASE_ADDR, fixed_symtab, object_codes,
                  current_text, current_start, mod_records, emitted_literals >>

Pass2Next ==
  \/ P2Begin \/ P2Format2 \/ P2Base \/ P2NoOperand \/ P2Format3 \/ P2Format4
  \/ P2Data \/ P2Reserve \/ P2Pool \/ P2Skip \/ P2Finish

-----------------------------------------------------------------------------
(* assemble_file after pass2 has returned: the two output files *)

ObjectProgramFile == "objectprogram.txt"
ListingFile == "listing.txt"

\* Path("objectprogram.txt").write_text(...): the file is written, or the
\* file system refuses it and OSError leaves assemble_file
WriteObjectProgram ==
  /\ pc = "done"
  /\ \/ /\ files' = files \cup {ObjectProgramFile}
        /\ pc' = "written"
        /\ UNCHANGED err
     \/ /\ Fail("IOError")
        /\ UNCHANGED files
  /\ UNCHANGED << suite, optab_base, prevars, label_lines, p1vars, p2vars >>

\* the listing lines are built from intermediate and the object codes, then
\* list_path.write_text(...): written, or refused by the file system
WriteListing ==
  /\ pc = "written"
  /\ \/ /\ files' = files \cup {ListingFile}
        /\ pc' = "complete"
        /\ UNCHANGED err
     \/ /\ Fail("IOError")
        /\ UNCHANGED files
  /\ UNCHANGED << suite, optab_base, prevars, label_lines, p1vars, p2vars >>

OutputNext == WriteObjectProgram \/ WriteListing

Next == Pass1Next \/ Pass2Next \/ OutputNext

Spec == Init /\ [][Next]_vars

-----------------------------------------------------------------------------
(* Raw source lines: parse_line *)

\* a text is a sequence of one-character strings
TAB == "\t"

\* the characters str.strip() and \s take for whitespace, of those a source
\* line of the model has
Whitespace == {" ", TAB}

Least(S) == CHOOSE x \in S : \A y \in S : x <= y

RECURSIVE LStrip(_)
LStrip(t) ==
  IF t = << >> \/ Head(t) \notin Whitespace THEN t ELSE LStrip(Tail(t))

RECURSIVE RStrip(_)
RStrip(t) ==
  IF t = << >> \/ t[Len(t)] \notin Whitespace THEN t
  ELSE RStrip(SubSeq(t, 1, Len(t) - 1))

\* str.strip()
Strip(t) == LStrip(RStrip(t))

\* str.startswith(p)
StartsWith(t, p) == Len(p) <= Len(t) /\ SubSeq(t, 1, Len(p)) = p

\* the positions of t where the character c stands
Positions(t, c) == { j \in 1..Len(t) : t[j] = c }

\* t.split(c, 1)[0]
Before(t, c) ==
  IF Positions(t, c) = {} THEN t ELSE SubSeq(t, 1, Least(Positions(t, c)) - 1)

LowerCase ==
  << "a", "b", "c", "d", "e", "f", "g", "h", "i", "j", "k", "l", "m",
     "n", "o", "p", "q", "r", "s", "t", "u", "v", "w", "x", "y", "z" >>

UpperCase ==
  << "A", "B", "C", "D", "E", "F", "G", "H", "I", "J", "K", "L", "M",
     "N", "O", "P", "Q", "R", "S", "T", "U", "V", "W", "X", "Y", "Z" >>

\* str.upper()
Upper(t) ==
  [j \in 1..Len(t) |->
     IF Positions(LowerCase, t[j]) = {} THEN t[j]
     ELSE UpperCase[Least(Positions(LowerCase, t[j]))]]

\* re.split(r"\s+", t, maxsplit=k), t without whitespace at either end
RECURSIVE SplitSpace(_, _)
SplitSpace(t, k) ==
  LET gaps == { j \in 1..Len(t) : t[j] \in Whitespace } IN
  IF k = 0 \/ gaps = {} THEN << t >>
  ELSE << SubSeq(t, 1, Least(gaps) - 1) >>
       \o SplitSpace(LStrip(SubSeq(t, Least(gaps), Len(t))), k - 1)

\* the words parse_line and expand_macros compare mnemonics with
T_CSECT == << "C", "S", "E", "C", "T" >>
T_RSUB == << "R", "S", "U", "B" >>
T_START == << "S", "T", "A", "R", "T" >>
T_END == << "E", "N", "D" >>
T_BYTE == << "B", "Y", "T", "E" >>
T_WORD == << "W", "O", "R", "D" >>
T_RESB == << "R", "E", "S", "B" >>
T_RESW == << "R", "E", "S", "W" >>
T_BASE == << "B", "A", "S", "E" >>
T_NOBASE == << "N", "O", "B", "A", "S", "E" >>
T_MACRO == << "M", "A", "C", "R", "O" >>
T_MEND == << "M", "E", "N", "D" >>

DIRECTIVES ==
  {T_START, T_END, T_BYTE, T_WORD, T_RESB, T_RESW, T_BASE, T_NOBASE}

\* parse_line returns None
NoParse == [skip |-> TRUE, label |-> << >>, opcode |-> << >>, operand |-> << >>]

\* the dict parse_line returns; an empty text stands for None
Parsed(label, opcode, operand) ==
  [skip |-> FALSE, label |-> label, opcode |-> Upper(opcode), operand |-> operand]

parse_line(line) ==
  IF Strip(line) = << >> \/ StartsWith(line, << "." >>) THEN NoParse
  ELSE LET cut == IF Positions(line, ".") # {} THEN RStrip(Before(line, "."))
                  ELSE line
           parts == SplitSpace(Strip(cut), 2)
       IN IF Len(parts) = 2
          THEN IF Upper(parts[2]) \in {T_CSECT, T_RSUB} \cup DIRECTIVES
               THEN Parsed(parts[1], parts[2], << >>)
               ELSE Parsed(<< >>, parts[1], parts[2])
          ELSE IF Len(parts) = 3
          THEN Parsed(parts[1], parts[2], parts[3])
          ELSE Parsed(<< >>, parts[1], << >>)

-----------------------------------------------------------------------------
(* expand_macros *)

\* t.split(c)
RECURSIVE Split(_, _)
Split(t, c) ==
  IF Positions(t, c) = {} THEN << t >>
  ELSE << SubSeq(t, 1, Least(Positions(t, c)) - 1) >>
       \o Split(SubSeq(t, Least(Positions(t, c)) + 1, Len(t)), c)

\* [t.strip() for t in op_str.split(',')] if op_str else []
parse_operands(op_str) ==
  IF op_str = << >> THEN << >>
  ELSE [j \in 1..Len(Split(op_str, ",")) |-> Strip(Split(op_str, ",")[j])]

\* str.replace(k, v) for a key that is not empty: the occurrences of k from
\* the left, none overlapping another
RECURSIVE Replace(_, _, _)
Replace(t, k, v) ==
  IF t = << >> THEN << >>
  ELSE IF StartsWith(t, k) THEN v \o Replace(SubSeq(t, Len(k) + 1, Len(t)), k, v)
  ELSE << Head(t) >> \o Replace(Tail(t), k, v)

\* sub_map[key] = val on a dict kept in insertion order
SetItem(m, key, val) ==
  IF \E j \in 1..Len(m) : m[j].key = key
  THEN [j \in 1..Len(m) |-> IF m[j].key = key THEN [key |-> key, val |-> val] ELSE m[j]]
  ELSE Append(m, [key |-> key, val |-> val])

\* the substitution map of an invocation, after the first n formals
RECURSIVE SubMap(_, _, _)
SubMap(params, actuals, n) ==
  IF n = 0 THEN << >>
  ELSE SetItem(SubMap(params, actuals, n - 1),
               IF StartsWith(params[n], << "&" >>) THEN params[n]
               ELSE << "&" >> \o params[n],
               IF n <= Len(actuals) THEN actuals[n] ELSE << >>)

\* for k, v in sub_map.items(): out = out.replace(k, v)
RECURSIVE Substitute(_, _)
Substitute(out, m) ==
  IF m = << >> THEN out
  ELSE Substitute(Replace(out, Head(m).key, Head(m).val), Tail(m))

\* the line of the while loop
MoreRaw == pc = "expand" /\ line_i <= Len(lines)

Raw == lines[line_i]

\* the first line from j on whose mnemonic is MEND, Len(lines) + 1 if none
RECURSIVE MendFrom(_)
MendFrom(j) ==
  IF j > Len(lines) THEN j
  ELSE IF ~parse_line(lines[j]).skip /\ parse_line(lines[j]).opcode = T_MEND THEN j
  ELSE MendFrom(j + 1)

\* a blank line or a comment: nothing is appended
ExpandSkip ==
  /\ MoreRaw
  /\ parse_line(Raw).skip
  /\ line_i' = line_i + 1
  /\ UNCHANGED << suite, optab_base, files, pc, err, p1vars, p2vars, label_lines,
                  lines, macros, expanded, given >>

\* <name> MACRO <params> ... MEND
ExpandDefine ==
  /\ MoreRaw
  /\ ~parse_line(Raw).skip
  /\ parse_line(Raw).opcode = T_MACRO
  /\ LET parsed == parse_line(Raw)
         macro_name == IF parsed.label # << >> THEN parsed.label
                       ELSE IF parsed.operand # << >>
                       THEN SplitSpace(Strip(parsed.operand), 1)[1]
                       ELSE << >>
         mend == MendFrom(line_i + 1)
     IN /\ macros' = Put(macros, macro_name,
                         [params |-> parse_operands(parsed.operand),
                          body |-> SubSeq(lines, line_i + 1, mend - 1)])
        /\ line_i' = mend + 1
  /\ UNCHANGED << suite, optab_base, files, pc, err, p1vars, p2vars, label_lines,
                  lines, expanded, given >>

\* a line whose mnemonic is the name of a macro
ExpandInvoke ==
  /\ MoreRaw
  /\ ~parse_line(Raw).skip
  /\ parse_line(Raw).opcode # T_MACRO
  /\ parse_line(Raw).opcode \in DOMAIN macros
  /\ LET parsed == parse_line(Raw)
         m == macros[parsed.opcode]
         sub_map == SubMap(m.params, parse_operands(parsed.operand), Len(m.params))
     IN expanded' =
          expanded
          \o (IF parsed.label # << >>
              THEN << parsed.label \o << TAB >> \o T_RESB \o << TAB, "0" >> >>
              ELSE << >>)
          \o [j \in 1..Len(m.body) |-> Substitute(m.body[j], sub_map)]
  /\ line_i' = line_i + 1
  /\ UNCHANGED << suite, optab_base, files, pc, err, p1vars, p2vars, label_lines,
                  lines, macros, given >>

\* a regular line
ExpandRegular ==
  /\ MoreRaw
  /\ ~parse_line(Raw).skip
  /\ parse_line(Raw).opcode # T_MACRO
  /\ parse_line(Raw).opcode \notin DOMAIN macros
  /\ expanded' = Append(expanded, Raw)
  /\ line_i' = line_i + 1
  /\ UNCHANGED << suite, optab_base, files, pc, err, p1vars, p2vars, label_lines,
                  lines, macros, given >>

\* return expanded
ExpandReturn ==
  /\ pc = "expand" /\ line_i > Len(lines)
  /\ pc' = "expanded"
  /\ UNCHANGED << suite, optab_base, files, err, p1vars, p2vars, label_lines, prevars >>

MacroNext ==
  ExpandSkip \/ ExpandDefine \/ ExpandInvoke \/ ExpandRegular \/ ExpandReturn

-----------------------------------------------------------------------------
(* expand_macros looked at alone: sources with one macro definition *)

\* lines of the source after the definition
MaxUses == 2

\* what a raw line was written as: kind is "macro", "body", "mend", "call" or
\* "plain"; p is the position of the formal a body line names (0: none)
Item(kind, label, op, args, p) ==
  [kind |-> kind, label |-> label, op |-> op, args |-> args, p |-> p]

MacroName == << "M", "V" >>

\* formal parameter lists: two names, two names the first of which is a
\* prefix of the second, no name
FormalLists ==
  { << << "A" >>, << "B" >> >>, << << "A" >>, << "A", "B" >> >>, << >> }

\* MV MACRO &F1,&F2 / LDA &F1 / STA &F2 / MEND, and MV MACRO / RSUB / MEND
Definition(formals) ==
  << Item("macro", MacroName, T_MACRO, formals, 0) >>
  \o (IF formals = << >>
      THEN << Item("body", << >>, T_RSUB, << >>, 0) >>
      ELSE << Item("body", << >>, << "L", "D", "A" >>, << >>, 1),
              Item("body", << >>, << "S", "T", "A" >>, << >>, 2) >>)
  \o << Item("mend", << >>, T_MEND, << >>, 0) >>

\* actual argument lists of an invocation
ActualLists ==
  { << << "X" >>, << "Y" >> >>, << << "&", "B" >>, << "Y" >> >>, << << "X" >> >> }

\* the lines after the definition: invocations with and without a label, a
\* statement in lower case, a comment, an indented comment, a blank line
Uses ==
  { Item("call", label, MacroName, actuals, 0) :
      label \in {<< >>, << "L" >>}, actuals \in ActualLists }
  \cup { Item("plain", << >>, text, << >>, 0) :
           text \in { << TAB, "r", "s", "u", "b" >>, << ".", "C" >>,
                      << " ", ".", "C" >>, << >> } }

\* c.join(texts)
RECURSIVE Join(_, _)
Join(texts, c) ==
  IF texts = << >> THEN << >>
  ELSE IF Len(texts) = 1 THEN texts[1]
  ELSE texts[1] \o << c >> \o Join(Tail(texts), c)

\* the raw line an item stands for, tab-separated
Render(item, formals) ==
  IF item.kind = "macro"
  THEN item.label \o << TAB >> \o item.op
       \o (IF item.args = << >> THEN << >>
           ELSE << TAB >>
                \o Join([j \in 1..Len(item.args) |-> << "&" >> \o item.args[j]], ","))
  ELSE IF item.kind = "body"
  THEN << TAB >> \o item.op
       \o (IF item.p = 0 THEN << >> ELSE << TAB, "&" >> \o formals[item.p])
  ELSE IF item.kind = "mend" THEN << TAB >> \o item.op
  ELSE IF item.kind = "call"
  THEN item.label \o << TAB >> \o item.op
       \o (IF item.args = << >> THEN << >> ELSE << TAB >> \o Join(item.args, ","))
  ELSE item.op

MacroInit ==
  /\ suite = "packing"
  /\ optab_base = FALSE
  /\ pc = "expand"
  /\ BeforePass1
  /\ \E formals \in FormalLists :
       \E uses \in UNION { [1..n -> Uses] : n \in 1..MaxUses } :
         given = Definition(formals) \o uses
  /\ lines = [k \in 1..Len(given) |-> Render(given[k], given[1].args)]
  /\ line_i = 1
  /\ macros = EmptyDict
  /\ expanded = << >>

MacroSpec == MacroInit /\ [][MacroNext]_vars

-----------------------------------------------------------------------------
(* Reading the results *)

\* bit k of an emitted word
Bit(word, k) == (word \div Pow2(k)) % 2

BitE3 == 12
BitP3 == 13
BitB3 == 14
BitE4 == 20
BitP4 == 21
BitB4 == 22

\* the source line an object code was generated for
LineOf(oc) == intermediate[oc.obj.src].line

\* a mnemonic of format 3/4
IsFormat34(ln) == Format34(ln.opcode)

\* a format-3 instruction with an operand
IsFormat3(ln) == IsFormat34(ln) /\ ~ln.plus /\ ln.operand.k # "none"

Assembled == pc = "done"

Pass1Done == pc \in {"laid", "pass2", "done"}

TextRecords == SelectSeq(records, LAMBDA r : r.t = "T")

ModRecords == SelectSeq(records, LAMBDA r : r.t = "M")

RECURSIVE TextBytes(_)
\* object bytes of a sequence of T records, as their length fields count them
TextBytes(trs) == IF trs = << >> THEN 0 ELSE Head(trs).nbytes + TextBytes(Tail(trs))

RECURSIVE ReservedBytes(_)
\* bytes reserved by the RESW and RESB lines of an intermediate stream
ReservedBytes(recs) ==
  IF recs = << >> THEN 0
  ELSE (IF Head(recs).line.opcode = "RESW" THEN 3 * Head(recs).line.operand.n
        ELSE IF Head(recs).line.opcode = "RESB" THEN Head(recs).line.operand.n
        ELSE 0)
       + ReservedBytes(Tail(recs))

\* an extended format 3/4 instruction whose operand is an EXTREF name
IsExtended4Ref(ln) ==
  IsFormat34(ln) /\ ln.plus /\ ln.operand.k # "none" /\ TargetText(ln.operand) \in extref

\* the EXTREF names among the operands of a WORD expression, counted
ExternalTerms(ln) ==
  IF ln.opcode = "WORD" /\ ln.operand.k = "expr"
  THEN (IF ln.operand.s \in extref THEN 1 ELSE 0)
       + (IF ln.operand.s2 \in extref THEN 1 ELSE 0)
  ELSE 0

RECURSIVE CountExtended4Refs(_)
CountExtended4Refs(recs) ==
  IF recs = << >> THEN 0
  ELSE (IF IsExtended4Ref(Head(recs).line) THEN 1 ELSE 0) + CountExtended4Refs(Tail(recs))

RECURSIVE CountExternalWords(_)
CountExternalWords(recs) ==
  IF recs = << >> THEN 0
  ELSE (IF ExternalTerms(Head(recs).line) > 0 THEN 1 ELSE 0)
       + CountExternalWords(Tail(recs))

RECURSIVE CountExternalTerms(_)
CountExternalTerms(recs) ==
  IF recs = << >> THEN 0
  ELSE ExternalTerms(Head(recs).line) + CountExternalTerms(Tail(recs))

-----------------------------------------------------------------------------
(* C1 *)

\* C1: in the object program of a program that assembles, every T record
\* holds at most 30 bytes of object code, a body of at most 60 hex characters.
C1_TextRecordAtMost30Bytes ==
  Assembled =>
    \A k \in 1..Len(TextRecords) :
      /\ HexLen(TextRecords[k].body) <= MaxTextHex
      /\ 2 * TextRecords[k].nbytes <= MaxTextHex

-----------------------------------------------------------------------------
(* C2 *)

\* C2: a format-3 instruction with a simple symbol operand whose displacement
\* target - (tloc + 3) is in -2048..2047 is emitted with p = 1, b = 0 and that
\* displacement in its low 12 bits; a format 3/4 mnemonic without operand
\* (RSUB) is emitted with b = 0 and displacement 0.
C2_PcRelativeSimpleOperand ==
  \A k \in 1..Len(object_codes) :
    LET oc == object_codes[k]
        ln == LineOf(oc)
    IN /\ ( /\ IsFormat3(ln)
            /\ ln.operand.k = "sym"
            /\ Defined(fixed_symtab, ln.operand.s)
            /\ InPcRange(fixed_symtab[Bare(ln.operand.s)] - (oc.tloc + 3)) )
          => /\ Bit(oc.obj.word, BitP3) = 1
             /\ Bit(oc.obj.word, BitB3) = 0
             /\ oc.obj.word % Mod12
                  = (fixed_symtab[Bare(ln.operand.s)] - (oc.tloc + 3)) % Mod12
       /\ (IsFormat34(ln) /\ ~ln.plus /\ ln.operand.k = "none")
          => /\ Bit(oc.obj.word, BitB3) = 0
             /\ oc.obj.word % Mod12 = 0

-----------------------------------------------------------------------------
(* C3 *)

\* C3: for every format-3 instruction emitted, the low 12 bits of the word are
\* disp & 0xFFF, and disp is inside the range its flags name: -2048..2047 when
\* p = 1, 0..4095 when b = 1; no value outside both ranges is put in the field.
C3_DisplacementInItsRange ==
  \A k \in 1..Len(object_codes) :
    LET oc == object_codes[k]
        ln == LineOf(oc)
    IN IsFormat3(ln)
       => /\ oc.obj.word % Mod12 = oc.obj.disp % Mod12
          /\ Bit(oc.obj.word, BitP3) = 1 => InPcRange(oc.obj.disp)
          /\ Bit(oc.obj.word, BitB3) = 1 => InBaseRange(oc.obj.disp)
          /\ InPcRange(oc.obj.disp) \/ InBaseRange(oc.obj.disp)

-----------------------------------------------------------------------------
(* C4 *)

\* C4: every instruction with the + marker on a format 3/4 mnemonic, with or
\* without operand, is emitted as 8 hex digits (the 4 bytes Pass 1 reserved)
\* with e = 1, b = 0, p = 0.
C4_ExtendedIsFourBytes ==
  \A k \in 1..Len(object_codes) :
    LET oc == object_codes[k]
        ln == LineOf(oc)
    IN (IsFormat34(ln) /\ ln.plus)
       => /\ oc.obj.hex = 8
          /\ Bit(oc.obj.word, BitE4) = 1
          /\ Bit(oc.obj.word, BitB4) = 0
          /\ Bit(oc.obj.word, BitP4) = 0

-----------------------------------------------------------------------------
(* C5 *)

\* C5: a label defined in two control sections has one scoped entry per
\* section, and a format-3 instruction that names the label is encoded
\* against the entry of the section the instruction is in.
C5_ReferenceResolvesInOwnSection ==
  /\ Pass1Done => \A key \in DOMAIN label_lines : key \in DOMAIN symtab
  /\ \A k \in 1..Len(object_codes) :
       LET oc == object_codes[k]
           ln == LineOf(oc)
           own == Scoped(CsectOf(oc.block), ln.operand.s)
       IN ( /\ IsFormat3(ln)
            /\ ln.operand.k = "sym"
            /\ own \in DOMAIN fixed_symtab
            /\ InPcRange(fixed_symtab[own] - (oc.tloc + 3)) )
          => oc.obj.disp = fixed_symtab[own] - (oc.tloc + 3)

-----------------------------------------------------------------------------
(* C6 *)

\* C6: Pass 1 ends with the duplicate-symbol error exactly when the walk has
\* read a second line carrying the same label in the same control section;
\* after a Pass 1 that succeeds, every scoped key of the symbol table was
\* bound by exactly one line, whatever other sections define the same label.
C6_DuplicateExactlyWithinSection ==
  /\ err = "DuplicateSymbol"
       <=> \E key \in DOMAIN label_lines : Cardinality(label_lines[key]) >= 2
  /\ Pass1Done =>
       /\ \A key \in DOMAIN label_lines :
            key \in DOMAIN symtab /\ Cardinality(label_lines[key]) = 1
       /\ \A key \in DOMAIN symtab : key[1] # << >> => key \in DOMAIN label_lines

\* a label accepted once in one section, then defined twice in another
C6_Witness ==
  /\ err = "DuplicateSymbol"
  /\ \E k1, k2 \in DOMAIN label_lines :
       /\ k1[1] # k2[1] /\ k1[2] = k2[2]
       /\ Cardinality(label_lines[k1]) = 1
       /\ Cardinality(label_lines[k2]) = 2

-----------------------------------------------------------------------------
(* C7 *)

\* C7: after Pass 1 completes every literal of the literal table has a pool
\* address, and it was placed once: no literal has two pool records.
C7_EveryLiteralPlacedOnce ==
  Pass1Done =>
    \A i \in 1..Len(littab) :
      /\ littab[i].address # NoAddr
      /\ Cardinality({ k \in 1..Len(intermediate) :
                         /\ intermediate[k].line.label = "*"
                         /\ intermediate[k].line.operand = LitValue(littab[i].lit) }) <= 1

-----------------------------------------------------------------------------
(* C8 *)

\* C8: in every T record with start address S, the object string that begins
\* at byte k of the body was generated for address S + k.
C8_TextRecordBytesAtTheirAddress ==
  Assembled =>
    \A k \in 1..Len(TextRecords) :
      LET r == TextRecords[k] IN
      \A j \in 1..Len(r.body) :
        2 * (r.body[j].at - r.start) = HexLen(SubSeq(r.body, 1, j - 1))

-----------------------------------------------------------------------------
(* C9 *)

\* C9: the object bytes of all T records together are the sum of the block
\* sizes of Pass 1 less the bytes reserved by RESW and RESB.
C9_TextBytesAreBlockSizesLessReserved ==
  Assembled =>
    TextBytes(TextRecords) = program_length - ReservedBytes(intermediate)

-----------------------------------------------------------------------------
(* C10 *)

\* C10 as stated: the number of M records is the number of extended
\* instructions whose operand is an EXTREF name plus the number of WORD
\* lines whose expression names at least one EXTREF name.
C10_OneModRecordPerExternalWord ==
  Assembled =>
    Len(ModRecords) = CountExtended4Refs(intermediate) + CountExternalWords(intermediate)

\* C10 amended: the number of M records is the number of extended
\* instructions whose operand is an EXTREF name plus the number of EXTREF
\* names among the operands of the WORD expressions (a WORD with two
\* external operands has two M records).
C10_OneModRecordPerExternalTerm ==
  Assembled =>
    Len(ModRecords) = CountExtended4Refs(intermediate) + CountExternalTerms(intermediate)

\* an object program with an external extended instruction and a WORD of
\* two external operands
C10_Witness ==
  /\ Assembled
  /\ \E k \in 1..Len(intermediate) : IsExtended4Ref(intermediate[k].line)
  /\ \E k \in 1..Len(intermediate) : ExternalTerms(intermediate[k].line) = 2
  /\ Len(ModRecords) >= 3

-----------------------------------------------------------------------------
(* C11 *)

\* the names of a D record and of an R record
DefNames(r) == { r.defs[k].name : k \in 1..Len(r.defs) }
RefNames(r) == { r.refs[k] : k \in 1..Len(r.refs) }

DefRecords == SelectSeq(records, LAMBDA r : r.t = "D")
RefRecords == SelectSeq(records, LAMBDA r : r.t = "R")

\* C11: for every format-4 instruction at tloc whose operand is an EXTREF
\* name S the object program has the M record (tloc + 1, 05, '+S'), the sign
\* prefix included; the EXTDEF names, when the program defines them, are
\* listed in one D record and the EXTREF names in one R record.
C11_ModRecordOfExternalFormat4 ==
  Assembled =>
    /\ \A k \in 1..Len(intermediate) :
         IsExtended4Ref(intermediate[k].line) =>
           \E j \in 1..Len(ModRecords) :
             /\ ModRecords[j].addr =
                  Block(blocktab, intermediate[k].block).address + intermediate[k].loc + 1
             /\ ModRecords[j].length = 5
             /\ ModRecords[j].sign = 1
             /\ ModRecords[j].sym = TargetText(intermediate[k].line.operand)
    /\ (extdef # {} /\ \A nm \in extdef : Defined(fixed_symtab, nm))
         => Len(DefRecords) = 1 /\ DefNames(DefRecords[1]) = extdef
    /\ extref # {} => Len(RefRecords) = 1 /\ RefNames(RefRecords[1]) = extref

-----------------------------------------------------------------------------
(* C12 *)

\* the program begins with a START line
Started == Len(intermediate) > 0 /\ intermediate[1].line.opcode = "START"

RECURSIVE HexRead(_)
\* the number a string of decimal digits names when it is read as hexadecimal
\* (n is the number the digits name in decimal): "1000" is 4096
HexRead(n) == IF n < 10 THEN n ELSE 16 * HexRead(n \div 10) + (n % 10)

\* C12: for a program that begins with NAME START addr the H record carries
\* NAME, the start address addr read as hexadecimal (START 1000 gives
\* 001000) and a program length that does not include the start address.
C12_HeaderFromStartLine ==
  (Assembled /\ Started) =>
    /\ records[1].t = "H"
    /\ records[1].name = intermediate[1].line.label
    /\ records[1].start = HexRead(intermediate[1].line.operand.n)
    /\ records[1].length = SumSizes(blocktab, Len(blocktab)) - start_address

-----------------------------------------------------------------------------
(* C13 *)

\* assemble_file has returned or an exception has left it
Ended == pc \in {"failed", "complete"}

\* C13: when macro expansion, Pass 1 or Pass 2 raises an error, no output
\* file has been written; and when the assemble call has ended, the object
\* program and the listing are both written or neither is.
C13_OutputsAllOrNothing ==
  /\ (pc = "failed" /\ err # "IOError") => files = {}
  /\ Ended => (files = {} \/ files = {ObjectProgramFile, ListingFile})

-----------------------------------------------------------------------------
(* C14 *)

\* the place of a record type in the object program
Rank(t) ==
  IF t = "H" THEN 0 ELSE IF t = "D" THEN 1 ELSE IF t = "R" THEN 2
  ELSE IF t = "T" THEN 3 ELSE IF t = "M" THEN 4 ELSE 5

CountOf(t) == Len(SelectSeq(records, LAMBDA r : r.t = t))

\* C14: an object program is one H record, at most one D record, at most one
\* R record, the T records in ascending order of start address, the M records
\* in the order they were queued, and one E record, in that order.
C14_RecordOrder ==
  Assembled =>
    /\ CountOf("H") = 1 /\ CountOf("E") = 1 /\ CountOf("D") <= 1 /\ CountOf("R") <= 1
    /\ \A i, j \in 1..Len(records) :
         i < j => /\ Rank(records[i].t) <= Rank(records[j].t)
                  /\ (records[i].t = "T" /\ records[j].t = "T")
                       => records[i].start <= records[j].start
    /\ Len(ModRecords) = Len(mod_records)
    /\ \A k \in 1..Len(ModRecords) :
         /\ ModRecords[k].addr = mod_records[k].addr
         /\ ModRecords[k].sym = mod_records[k].sym
         /\ ModRecords[k].sign = mod_records[k].sign

-----------------------------------------------------------------------------
(* C15 *)

\* a name Pass 2 can resolve for a line of this block: a symbol of the
\* table or an EXTREF name
Known(name, block) ==
  \/ Defined(fixed_symtab, name)
  \/ Scoped(CsectOf(block), name) \in DOMAIN fixed_symtab
  \/ name \in extref

\* C15: Pass 2 emits no object code for a format-3 instruction, a format-4
\* instruction or a WORD expression that names a symbol which is neither in
\* the symbol table nor an EXTREF name: it ends with an error instead.
C15_NoCodeForUndefinedSymbol ==
  \A k \in 1..Len(object_codes) :
    LET oc == object_codes[k]
        ln == LineOf(oc)
    IN /\ (IsFormat34(ln) /\ ln.operand.k \in {"sym", "immsym", "ind"})
          => Known(ln.operand.s, oc.block)
       /\ (ln.opcode = "WORD" /\ ln.label # "*" /\ ln.operand.k = "expr")
          => Known(ln.operand.s, oc.block) /\ Known(ln.operand.s2, oc.block)

-----------------------------------------------------------------------------
(* C16 *)

\* the operand of a format-3 instruction is a symbol of the table or a
\* literal with a pool address
HasTarget(ln) ==
  \/ ln.operand.k \in {"sym", "immsym", "ind"} /\ Defined(fixed_symtab, ln.operand.s)
  \/ /\ ln.operand.k = "lit"
     /\ HasLiteral(littab, ln.operand)
     /\ Literal(littab, ln.operand).address # NoAddr

\* its address, block base folded in
TargetOf(ln) ==
  IF ln.operand.k = "lit"
  THEN Literal(littab, ln.operand).address
       + Block(blocktab, Literal(littab, ln.operand).block).address
  ELSE fixed_symtab[Bare(ln.operand.s)]

\* Pass 2 is about to encode a format 3/4 instruction
AtInstruction == Walking /\ Format34(Cur.line.opcode)

\* C16: encoding an instruction never changes BASE_ADDR; and when the target
\* of a format-3 instruction is outside -2048..2047 relative to the program
\* counter and outside 0..4095 relative to the BASE_ADDR in force, Pass 2 ends
\* with a displacement-out-of-range error and emits nothing for it.
C16_OutOfRangeIsAnError ==
  [][ AtInstruction =>
        /\ BASE_ADDR' = BASE_ADDR
        /\ ( /\ IsFormat3(Cur.line)
             /\ HasTarget(Cur.line)
             /\ ~InPcRange(TargetOf(Cur.line) - (Tloc + 3))
             /\ ~InBaseRange(TargetOf(Cur.line) - BASE_ADDR) )
           => /\ pc' = "failed"
              /\ err' = "DisplacementOutOfRange"
              /\ object_codes' = object_codes ]_vars

-----------------------------------------------------------------------------
(* C17 *)

RECURSIVE BaseInForce(_)
\* the base the directives before record k set: the value of the operand of
\* the last BASE line, 0 after NOBASE and when there is none
BaseInForce(k) ==
  IF k <= 1 THEN 0
  ELSE LET ln == intermediate[k - 1].line IN
       IF ln.opcode = "BASE" /\ Defined(fixed_symtab, SymbolText(ln.operand))
       THEN fixed_symtab[Bare(SymbolText(ln.operand))]
       ELSE IF ln.opcode = "NOBASE" THEN 0
       ELSE BaseInForce(k - 1)

\* C17: at every instruction Pass 2 encodes, BASE_ADDR is the value of the
\* operand of the last BASE line before it, or 0 when there is none or NOBASE
\* came after it; BASE and NOBASE lines emit no object code and do not
\* advance the location counter in Pass 1.
C17_BaseFollowsDirectives ==
  /\ AtInstruction => BASE_ADDR = BaseInForce(idx)
  /\ \A k \in 1..Len(object_codes) :
       LineOf(object_codes[k]).opcode \notin {"BASE", "NOBASE"}
  /\ \A k \in 1..Len(intermediate) :
       intermediate[k].line.opcode \in {"BASE", "NOBASE"}
         => intermediate[k].loc = (IF k = 1 THEN 0 ELSE intermediate[k - 1].loc)

\* C17, its first part alone, for an opcode table without BASE
C17_BaseFollowsDirectivesPlainTable ==
  (~optab_base /\ AtInstruction) => BASE_ADDR = BaseInForce(idx)

-----------------------------------------------------------------------------
(* C18 *)

\* the program has an LTORG or END line
HasPoolLine ==
  \E k \in 1..Len(intermediate) : intermediate[k].line.opcode \in {"LTORG", "END"}

\* the object codes that hold the bytes of literal i at its pool address
PoolCodes(i) ==
  { k \in 1..Len(object_codes) :
      /\ LineOf(object_codes[k]).label = "*"
      /\ LineOf(object_codes[k]).operand = LitValue(littab[i].lit)
      /\ object_codes[k].tloc =
           littab[i].address + Block(blocktab, littab[i].block).address }

\* C18: in a program with a literal and an LTORG or END line, Pass 2 passes
\* the LTORG/END record without error, and the object codes hold the bytes of
\* each literal exactly once, at its pool address with the block base added.
C18_PoolEmittedOnce ==
  (littab # << >> /\ HasPoolLine) =>
    /\ ~(pc = "failed" /\ err = "NameError")
    /\ Assembled =>
         \A i \in 1..Len(littab) :
           littab[i].address # NoAddr => Cardinality(PoolCodes(i)) = 1

-----------------------------------------------------------------------------
(* C19 *)

\* a RESW or RESB line that reserves more than the threshold
IsLargeReservation(ln) ==
  /\ ln.opcode \in {"RESW", "RESB"}
  /\ ln.operand.k = "num"
  /\ (IF ln.opcode = "RESW" THEN 3 * ln.operand.n ELSE ln.operand.n) > LargeReservation

\* some literal has no pool address yet
LiteralsPending == \E i \in 1..Len(littab) : littab[i].address = NoAddr

\* loc, line and block of intermediate records
Placed(recs) ==
  [k \in 1..Len(recs) |->
     [loc |-> recs[k].loc, line |-> recs[k].line, block |-> recs[k].block]]

\* C19: a step of Pass 1 over a RESW/RESB line of more than 100 bytes, with
\* literals pending, leaves what an LTORG line before it would: the pool
\* addresses in littab, one '*' BYTE record per literal placed, and the
\* label of the line and the reservation applied after the pool.
C19_LargeReservationActsAsLtorg ==
  [][ ( /\ pc = "pass1" /\ pc' = "pass1"
        /\ Len(intermediate') > Len(intermediate)
        /\ IsLargeReservation(intermediate'[Len(intermediate')].line)
        /\ LiteralsPending )
      => LET ln == intermediate'[Len(intermediate')].line
             pool == PlaceLiterals(littab, 1, locctr, current_block, lineno, << >>)
             size == IF ln.opcode = "RESW" THEN 3 * ln.operand.n ELSE ln.operand.n
         IN /\ littab' = pool.littab
            /\ Placed(SubSeq(intermediate', Len(intermediate) + 1,
                              Len(intermediate') - 1))
                 = Placed(pool.recs)
            /\ symtab' = BindLabel(symtab, current_csect, ln.label, pool.locctr)
            /\ locctr' = pool.locctr + size ]_vars

-----------------------------------------------------------------------------
(* C20 *)

\* the control section in force after the first k records: the block the
\* last CSECT line switched to, DEFAULT before the first one
RECURSIVE SectionAt(_)
SectionAt(k) ==
  IF k = 0 THEN DEFAULT
  ELSE IF intermediate[k].line.opcode = "CSECT" THEN intermediate[k].block
  ELSE SectionAt(k - 1)

\* the main blocks of the control sections
MainBlocks ==
  {DEFAULT} \cup { intermediate[k].block :
                     k \in { j \in 1..Len(intermediate) :
                               intermediate[j].line.opcode = "CSECT" } }

\* the blocks the USE lines of a section switched to
UseBlocks(sec) ==
  { intermediate[k].block :
      k \in { j \in 1..Len(intermediate) :
                /\ intermediate[j].line.opcode = "USE"
                /\ SectionAt(j) = sec } }

\* sizes of the USE blocks of a section among the first k blocks
RECURSIVE UseSizesBefore(_, _)
UseSizesBefore(sec, k) ==
  IF k = 0 THEN 0
  ELSE UseSizesBefore(sec, k - 1)
       + (IF blocktab[k].name \in UseBlocks(sec) THEN blocktab[k].size ELSE 0)

LaidOut == pc \in {"laid", "pass2", "done", "written", "complete"}

\* C20: after Pass 1 the main block of every control section has address 0
\* and each USE block of a section has the size of the main block plus the
\* sizes of the section's earlier USE blocks.
C20_BlocksOfASectionAreSequential ==
  LaidOut =>
    \A i \in 1..Len(blocktab) :
      /\ blocktab[i].name \in MainBlocks => blocktab[i].address = 0
      /\ \A sec \in MainBlocks :
           (blocktab[i].name \in UseBlocks(sec) \ MainBlocks)
             => blocktab[i].address =
                  Block(blocktab, sec).size + UseSizesBefore(sec, i - 1)

-----------------------------------------------------------------------------
(* C21 *)

\* the counter a block was left with, read off the first k records: the
\* address of its last record, 0 when it has none
RECURSIVE LastLoc(_, _)
LastLoc(block, k) ==
  IF k = 0 THEN 0
  ELSE IF intermediate[k].block = block THEN intermediate[k].loc
  ELSE LastLoc(block, k - 1)

\* a line that puts bytes into the object program
OccupiesBytes(ln) ==
  \/ Format34(ln.opcode)
  \/ Format2Only(ln.opcode)
  \/ ln.opcode \in {"BYTE", "WORD"}

\* C21, the part about the switch alone: a USE or CSECT line resumes the
\* counter its block was left with (0 for a new block), and the addresses of
\* the records of one block never decrease.
C21_SwitchResumesCounter ==
  /\ \A k \in 1..Len(intermediate) :
       intermediate[k].line.opcode \in {"USE", "CSECT"}
         => intermediate[k].loc = LastLoc(intermediate[k].block, k - 1)
  /\ \A j, k \in 1..Len(intermediate) :
       (j < k /\ intermediate[j].block = intermediate[k].block)
         => intermediate[j].loc <= intermediate[k].loc

\* C21: a block that is entered again resumes the counter it was left with,
\* the counter of a block never decreases, and no two byte-occupying
\* statements of one block are given the same block-local address.
C21_BlockCountersResume ==
  /\ C21_SwitchResumesCounter
  /\ \A j, k \in 1..Len(intermediate) :
       ( /\ j < k
         /\ intermediate[j].block = intermediate[k].block
         /\ OccupiesBytes(intermediate[j].line)
         /\ OccupiesBytes(intermediate[k].line) )
         => intermediate[j].loc # intermediate[k].loc

-----------------------------------------------------------------------------
(* C22 *)

\* the symbols of an EQU operand are all in the table
EquTermsDefined(o, st) ==
  IF o.k = "expr" THEN Defined(st, o.s) /\ Defined(st, o.s2)
  ELSE IF o.k = "sym" THEN Defined(st, o.s)
  ELSE o.k \in {"star", "num"}

\* the value of an EQU operand: locctr for *, A + B, A - B, the integer,
\* the value of the symbol
EquValue(o, st, loc) ==
  IF o.k = "star" THEN loc + o.n
  ELSE IF o.k = "expr" THEN st[Bare(o.s)] + o.sg * st[Bare(o.s2)]
  ELSE IF o.k = "num" THEN o.n
  ELSE st[Bare(o.s)]

\* the line of the record a step has appended last
Appended == intermediate'[Len(intermediate')].line

\* C22: a step of Pass 1 over an EQU line whose operand names defined
\* symbols leaves locctr alone and binds the label, scoped and bare key, to
\* the value of the operand.
C22_EquBindsOperandValue ==
  [][ ( /\ pc = "pass1" /\ pc' = "pass1"
        /\ Len(intermediate') = Len(intermediate) + 1
        /\ Appended.opcode = "EQU"
        /\ EquTermsDefined(Appended.operand, symtab) )
      => /\ locctr' = locctr
         /\ symtab' = BindLabel(symtab, current_csect, Appended.label,
                                EquValue(Appended.operand, symtab, locctr)) ]_vars

-----------------------------------------------------------------------------
(* C23 *)

\* C23: the low 20 bits of the word of a format-4 instruction are the number
\* N & 0xFFFFF when its operand is a decimal number N, and the symbol's
\* block-folded value & 0xFFFFF when it is a defined symbol.
C23_Format4AddressField ==
  \A k \in 1..Len(object_codes) :
    LET oc == object_codes[k]
        ln == LineOf(oc)
    IN (IsFormat34(ln) /\ ln.plus) =>
         /\ ln.operand.k \in {"immnum", "num"}
              => oc.obj.word % Mod20 = ln.operand.n % Mod20
         /\ Defined(fixed_symtab, SymbolText(ln.operand))
              => oc.obj.word % Mod20 = fixed_symtab[Bare(SymbolText(ln.operand))] % Mod20

-----------------------------------------------------------------------------
(* C24 *)

\* the actual argument at the position of a formal, empty when missing
ActualAt(args, p) == IF p <= Len(args) THEN args[p] ELSE << >>

\* what an invocation is to be replaced with: the line 'label RESB 0' if it
\* has a label, then the body lines with the actual in place of the formal
Expansion(call, body) ==
  (IF call.label # << >>
   THEN << call.label \o << TAB >> \o T_RESB \o << TAB, "0" >> >>
   ELSE << >>)
  \o [j \in 1..Len(body) |->
        << TAB >> \o body[j].op
        \o (IF body[j].p = 0 THEN << >>
            ELSE << TAB >> \o ActualAt(call.args, body[j].p))]

\* C24: the step of expand_macros at an invocation of the macro appends the
\* line 'label RESB 0' if the invocation has a label and then the body lines
\* with every formal replaced by the actual at its position; a step at a
\* MACRO line, a body line of the definition or a MEND line appends nothing.
C24_InvocationIsReplacedByBody ==
  [][ MoreRaw =>
        /\ given[line_i].kind = "call"
             => expanded' =
                  expanded
                  \o Expansion(given[line_i],
                               SelectSeq(given, LAMBDA it : it.kind = "body"))
        /\ given[line_i].kind \in {"macro", "body", "mend"}
             => expanded' = expanded ]_vars

-----------------------------------------------------------------------------
(* C25 *)

\* C25: parse_line skips a raw line exactly when its trimmed text is empty or
\* begins with '.', and returns for every other line a parsed line whose
\* mnemonic is not empty and is in upper case.
C25_SkipsExactlyBlankAndComment ==
  \A k \in 1..Len(lines) :
    IF Strip(lines[k]) = << >> \/ StartsWith(Strip(lines[k]), << "." >>)
    THEN parse_line(lines[k]) = NoParse
    ELSE /\ ~parse_line(lines[k]).skip
         /\ parse_line(lines[k]).opcode # << >>
         /\ parse_line(lines[k]).opcode = Upper(parse_line(lines[k]).opcode)

-----------------------------------------------------------------------------
(* C26 *)

\* record k is a labelled instruction or data definition of the source
LabelledStatement(k) ==
  /\ OccupiesBytes(intermediate[k].line)
  /\ intermediate[k].line.label \notin {"", "*"}

\* the key its label was bound under
OwnLabel(k) == Scoped(SectionAt(k), intermediate[k].line.label)

\* C26: the address in the intermediate record of a labelled instruction or
\* data definition is the value its own label was bound to, the address of
\* its first byte; in Pass 2 the address its object code is emitted at is the
\* block-folded value of its label.
C26_RecordAddressIsLabelValue ==
  /\ \A k \in 1..Len(intermediate) :
       (LabelledStatement(k) /\ OwnLabel(k) \in DOMAIN symtab)
         => intermediate[k].loc = symtab[OwnLabel(k)]
  /\ \A j \in 1..Len(object_codes) :
       LET k == object_codes[j].obj.src IN
       (LabelledStatement(k) /\ OwnLabel(k) \in DOMAIN fixed_symtab)
         => object_codes[j].tloc = fixed_symtab[OwnLabel(k)]

====
